---------------------------- MODULE Spec2Model ----------------------------
(***************************************************************************)
(* The "robust value" (rv) screener of                                     *)
(* Quantitative_value_investing_strategy.ipynb, run top to bottom:         *)
(*   chunks / symbol_strings  ->  batch fetch and rv_dataframe build       *)
(*   ->  fillna(mean)  ->  percentileofscore  ->  RV Score                  *)
(*   ->  sort_values / [:50]  ->  portfolio_input  ->  shares to buy.       *)
(*                                                                         *)
(* Numbers are exact rationals (the notebook uses binary floating point;   *)
(* rounding is not modelled).  Only the rv part of the notebook is         *)
(* modelled, not the single-metric screener before it.                     *)
(*                                                                         *)
(* A cell of the table is a record                                         *)
(*   [k |-> "num", n, d]   the number n/d in lowest terms, d > 0           *)
(*   [k |-> "nan"]         a missing value: None or np.NaN (pandas' isnull, *)
(*                         mean and fillna treat the two alike)            *)
(*   [k |-> "N/A"]         the 'N/A' placeholder string of the build loop   *)
(***************************************************************************)
EXTENDS Integers, Sequences, FiniteSets, TLC

(***************************************************************************)
(* Bounds of the model.  ChunkSize stands for the batch limit 100 and TopN *)
(* for the selection size 50 of the notebook; both are scaled down so that *)
(* several chunks and a real truncation occur within MaxUniverse tickers.  *)
(***************************************************************************)
MaxUniverse == 3
ChunkSize == 2
TopN == 2

VARIABLES stocks, symbol_strings, group, data, rv_dataframe, portfolio_size,
          pc, exception

vars == <<stocks, symbol_strings, group, data, rv_dataframe, portfolio_size,
          pc, exception>>

----------------------------------------------------------------------------
(* Exact rational arithmetic standing for Python's numbers. *)

Abs(x) == IF x < 0 THEN -x ELSE x

RECURSIVE GCD(_, _)
GCD(a, b) == IF b = 0 THEN a ELSE GCD(b, a % b)

NaN == [k |-> "nan", n |-> 0, d |-> 0]
NA == [k |-> "N/A", n |-> 0, d |-> 0]

\* n/d (d > 0) in lowest terms
Num(n, d) ==
  LET g == GCD(Abs(n), d)
  IN  [k |-> "num", n |-> n \div g, d |-> d \div g]

IsNum(x) == x.k = "num"
isnull(x) == x.k = "nan"

Add(x, y) == Num(x.n * y.d + y.n * x.d, x.d * y.d)
\* x / y for numbers with y # 0
Quot(x, y) ==
  IF y.n > 0 THEN Num(x.n * y.d, x.d * y.n) ELSE Num(-(x.n * y.d), x.d * (-y.n))

\* IEEE comparisons: every comparison with NaN is false
Lt(x, y) == IsNum(x) /\ IsNum(y) /\ x.n * y.d < y.n * x.d
Le(x, y) == IsNum(x) /\ IsNum(y) /\ x.n * y.d <= y.n * x.d

\* (mutant) rounding up instead of down
Floor_up(x) == -((-x.n) \div x.d)

\* math.floor of a number
Floor(x) == x.n \div x.d

RECURSIVE SumSeq(_)
SumSeq(s) == IF s = <<>> THEN Num(0, 1) ELSE Add(Head(s), SumSeq(Tail(s)))

Range(s) == {s[i] : i \in DOMAIN s}

----------------------------------------------------------------------------
(* The ticker universe and its batching (cell "def chunks ..."). *)

TickerNames == <<"A", "B", "C", "D", "E">>

\* lst[i:j] with 0-based, end-exclusive Python indices
Slice(lst, i, j) ==
  SubSeq(lst, i + 1, IF j < Len(lst) THEN j ELSE Len(lst))

\* (mutant) slices one element too long: neighbouring chunks overlap
RECURSIVE chunksFrom_overlap(_, _, _)
chunksFrom_overlap(lst, n, i) ==
  IF i >= Len(lst) THEN <<>>
  ELSE <<Slice(lst, i, i + n + 1)>> \o chunksFrom_overlap(lst, n, i + n)

\* list(chunks(lst, n)): lst[i:i+n] for i in range(0, len(lst), n)
RECURSIVE chunksFrom(_, _, _)
chunksFrom(lst, n, i) ==
  IF i >= Len(lst) THEN <<>>
  ELSE <<Slice(lst, i, i + n)>> \o chunksFrom(lst, n, i + n)

chunks(lst, n) == chunksFrom(lst, n, 0)

\* ','.join(group): the tickers with a "," between neighbours
RECURSIVE join(_)
join(g) ==
  IF g = <<>> THEN <<>>
  ELSE IF Len(g) = 1 THEN <<g[1]>>
  ELSE <<g[1], ",">> \o join(Tail(g))

\* symbol_string.split(','): the tokens between the separators
RECURSIVE split(_)
split(s) ==
  IF s = <<>> THEN <<>>
  ELSE IF Head(s) = "," THEN split(Tail(s))
  ELSE <<Head(s)>> \o split(Tail(s))

SymbolStrings(tickers) ==
  LET symbol_groups == chunks(tickers, ChunkSize)
  IN  [i \in 1..Len(symbol_groups) |-> join(symbol_groups[i])]

----------------------------------------------------------------------------
(* The provider's JSON payload for one symbol: numbers, null, or a string. *)

JNum(v) == [t |-> "num", v |-> v]
JNull == [t |-> "null", v |-> 0]
JStr == [t |-> "str", v |-> 0]

Bag(price, pe, pb, ps, ev, ebitda, gp) ==
  [latestPrice |-> price, peRatio |-> pe, priceToBook |-> pb,
   priceToSales |-> ps, enterpriseValue |-> ev, EBITDA |-> ebitda,
   grossProfit |-> gp]

\* The payloads the modelled provider may return for a symbol.
Responses ==
  { Bag(1, JNum(1), JNum(1), JNum(1), JNum(4), JNum(2), JNum(4)),
    Bag(3, JNum(2), JNum(2), JNum(2), JNum(4), JNum(1), JNum(2)),
    Bag(3, JNum(1), JNum(2), JNum(1), JNum(4), JNum(1), JNum(4)),
    Bag(0, JNum(-1), JNum(1), JNum(2), JNum(4), JNum(2), JNum(2)),
    Bag(3, JNull, JNum(2), JNum(1), JNum(4), JNull, JNum(4)),
    Bag(1, JNull, JNull, JNull, JNull, JNull, JNull),
    Bag(-2, JNum(2), JNull, JNum(1), JNull, JNum(0), JStr),
    Bag(3, JNum(1), JNum(1), JNum(1), JNum(4), JNum(0), JNum(4)),
    Bag(1, JNum(2), JNum(2), JNum(2), JNum(4), JNum(2), JNum(0)),
    Bag(1, JNum(10), JNum(10), JNum(10), JNum(20), JNum(2), JNum(2)),
    Bag(3, JNum(20), JNum(20), JNum(20), JNum(40), JNum(2), JNum(2)) }

\* A JSON value as it lands in a table cell
Cell(j) == IF j.t = "num" THEN Num(j.v, 1) ELSE NaN

\* Python's x / y on two JSON values: the quotient, or the exception raised
PyDiv(x, y) ==
  IF x.t # "num" \/ y.t # "num" THEN [exc |-> "TypeError", val |-> NaN]
  ELSE IF y.v = 0 THEN [exc |-> "ZeroDivisionError", val |-> NaN]
  ELSE [exc |-> "none", val |-> Quot(Num(x.v, 1), Num(y.v, 1))]

\* try: r = x / y   except TypeError: r = np.NaN
TryDiv(x, y) ==
  LET q == PyDiv(x, y)
  IN  IF q.exc = "TypeError" THEN [exc |-> "none", val |-> NaN] ELSE q

----------------------------------------------------------------------------
(* The table. *)

rv_columns ==
  <<"Ticker", "Price", "Number of Shares to Buy",
    "Price-to-Earnings Ratio", "PE Percentile",
    "Price-to-Book Ratio", "PB Percentile",
    "Price-to-Sales Ratio", "PS Percentile",
    "EV/EBITDA", "EV/EBITDA Percentile",
    "EV/GP", "EV/GP Percentile", "RV Score">>

\* metric column -> percentile column, in the dictionary's order
metrics ==
  <<<<"Price-to-Earnings Ratio", "PE Percentile">>,
    <<"Price-to-Book Ratio", "PB Percentile">>,
    <<"Price-to-Sales Ratio", "PS Percentile">>,
    <<"EV/EBITDA", "EV/EBITDA Percentile">>,
    <<"EV/GP", "EV/GP Percentile">>>>

NewRow(symbol, bag, ev_to_ebitda, ev_to_gross_profit) ==
  [c \in Range(rv_columns) |->
     CASE c = "Ticker" -> symbol
       [] c = "Price" -> Num(bag.latestPrice, 1)
       [] c = "Price-to-Earnings Ratio" -> Cell(bag.peRatio)
       [] c = "Price-to-Book Ratio" -> Cell(bag.priceToBook)
       [] c = "Price-to-Sales Ratio" -> Cell(bag.priceToSales)
       [] c = "EV/EBITDA" -> ev_to_ebitda
       [] c = "EV/GP" -> ev_to_gross_profit
       [] OTHER -> NA]

\* The inner loop of the build cell over the symbols of one request: the
\* table after it, and the exception that ended it (if any).
RECURSIVE AppendRows(_, _, _)
AppendRows(df, symbols, resp) ==
  IF symbols = <<>> THEN [df |-> df, exc |-> "none"]
  ELSE
    LET symbol == Head(symbols)
        adv == resp[symbol]
        e == TryDiv(adv.enterpriseValue, adv.EBITDA)
        g == TryDiv(adv.enterpriseValue, adv.grossProfit)
    IN  IF e.exc # "none" THEN [df |-> df, exc |-> e.exc]
        ELSE IF g.exc # "none" THEN [df |-> df, exc |-> g.exc]
        ELSE AppendRows(Append(df, NewRow(symbol, adv, e.val, g.val)),
                        Tail(symbols), resp)

----------------------------------------------------------------------------
(* Missing data: rv_dataframe[column].fillna(rv_dataframe[column].mean()). *)

Column(df, column) == [i \in DOMAIN df |-> df[i][column]]

\* (mutant) a mean that counts the missing cells as rows
SeriesMean_overall(values) ==
  LET defined == SelectSeq(values, IsNum)
  IN  IF defined = <<>> THEN NaN
      ELSE Quot(SumSeq(defined), Num(Len(values), 1))

\* Series.mean(): the mean of the non-null cells, NaN when there is none
SeriesMean(values) ==
  LET defined == SelectSeq(values, IsNum)
  IN  IF defined = <<>> THEN NaN
      ELSE Quot(SumSeq(defined), Num(Len(defined), 1))

\* Series.fillna(value, inplace = True)
fillna(df, column, value) ==
  [i \in DOMAIN df |->
     IF isnull(df[i][column]) THEN [df[i] EXCEPT ![column] = value]
     ELSE df[i]]

\* for column in [...]: fillna(mean), over the metric columns from the k-th on
RECURSIVE FillFrom(_, _)
FillFrom(df, k) ==
  IF k > Len(metrics) THEN df
  ELSE LET column == metrics[k][1]
       IN  FillFrom(fillna(df, column, SeriesMean(Column(df, column))), k + 1)

----------------------------------------------------------------------------
(* Percentiles and the RV Score. *)

\* (mutant) kind = 'strict': the percentage of values < score
percentileofscore_strict(a, score) ==
  IF isnull(score) \/ \E i \in DOMAIN a : isnull(a[i]) THEN NaN
  ELSE Num(Cardinality({i \in DOMAIN a : Lt(a[i], score)}) * 100, Len(a))

\* (mutant) kind = 'weak': the percentage of values <= score
percentileofscore_weak(a, score) ==
  IF isnull(score) \/ \E i \in DOMAIN a : isnull(a[i]) THEN NaN
  ELSE Num(Cardinality({i \in DOMAIN a : Le(a[i], score)}) * 100, Len(a))

\* scipy.stats.percentileofscore(a, score) with its default kind = 'rank':
\* the average of the strict and the weak percentage ranking; nan when the
\* score or the array holds a nan.
percentileofscore(a, score) ==
  IF isnull(score) \/ \E i \in DOMAIN a : isnull(a[i]) THEN NaN
  ELSE LET n == Len(a)
           left == Cardinality({i \in DOMAIN a : Lt(a[i], score)})
           right == Cardinality({i \in DOMAIN a : Le(a[i], score)})
           plus1 == IF left < right THEN 1 ELSE 0
       IN  Num((left + right + plus1) * 50, n)

\* x / 100 on a float that may be nan
Over100(x) == IF isnull(x) THEN NaN ELSE Quot(x, Num(100, 1))

\* (mutant) the ranks taken within the first rows only, not the universe
Percentiles_subset(df) ==
  LET head == SubSeq(df, 1, IF Len(df) < 2 THEN Len(df) ELSE 2)
  IN  [row \in DOMAIN df |->
         [c \in Range(rv_columns) |->
            IF \E m \in DOMAIN metrics : metrics[m][2] = c
            THEN LET metric == metrics[CHOOSE m \in DOMAIN metrics :
                                         metrics[m][2] = c][1]
                 IN  Over100(percentileofscore(Column(head, metric),
                                               df[row][metric]))
            ELSE df[row][c]]]

\* for row in index: for metric in metrics: loc[row, percentile] = ... / 100
Percentiles(df) ==
  [row \in DOMAIN df |->
     [c \in Range(rv_columns) |->
        IF \E m \in DOMAIN metrics : metrics[m][2] = c
        THEN LET metric == metrics[CHOOSE m \in DOMAIN metrics :
                                     metrics[m][2] = c][1]
             IN  Over100(percentileofscore(Column(df, metric),
                                           df[row][metric]))
        ELSE df[row][c]]]

\* statistics.mean of a non-empty list of floats: nan when one of them is nan
mean(values) ==
  IF \E i \in DOMAIN values : isnull(values[i]) THEN NaN
  ELSE Quot(SumSeq(values), Num(Len(values), 1))

\* value_percentiles of a row: its percentile cells in the metrics' order
value_percentiles(r) == [m \in DOMAIN metrics |-> r[metrics[m][2]]]

Scores(df) ==
  [row \in DOMAIN df |->
     [df[row] EXCEPT !["RV Score"] = mean(value_percentiles(df[row]))]]

----------------------------------------------------------------------------
(* Selection: sort_values(by = 'RV Score'), [:50], reset_index. *)

\* x strictly before y in an ascending sort with na_position = 'last'
Before(x, y) == Lt(x, y) \/ (IsNum(x) /\ isnull(y))

Perms(n) == {p \in [1..n -> 1..n] : \A i, j \in 1..n : p[i] = p[j] => i = j}

\* (mutant) sort_values without inplace = True: the table stays as it was
SortOutcomes_unsorted(df, by) == {df}

\* sort_values with the default kind = 'quicksort', which is not stable: any
\* ascending arrangement of the rows is a possible outcome.
SortOutcomes(df, by) ==
  { [i \in DOMAIN df |-> df[p[i]]] :
      p \in { q \in Perms(Len(df)) :
                \A i, j \in DOMAIN df :
                  i < j => ~Before(df[q[j]][by], df[q[i]][by]) } }

----------------------------------------------------------------------------
(* The portfolio size typed by the user: a string, here a sequence of     *)
(* characters.  float() is modelled on signed decimal integers; any other *)
(* entry of Entries raises ValueError, as it does in Python.               *)

Digits == {"0", "1", "2", "3", "4", "5", "6", "7", "8", "9"}

DigitVal(c) ==
  CASE c = "0" -> 0 [] c = "1" -> 1 [] c = "2" -> 2 [] c = "3" -> 3
    [] c = "4" -> 4 [] c = "5" -> 5 [] c = "6" -> 6 [] c = "7" -> 7
    [] c = "8" -> 8 [] c = "9" -> 9

RECURSIVE DigitsVal(_, _)
DigitsVal(s, acc) ==
  IF s = <<>> THEN acc ELSE DigitsVal(Tail(s), 10 * acc + DigitVal(Head(s)))

AllDigits(s) == s # <<>> /\ \A i \in DOMAIN s : s[i] \in Digits

\* float(s): the number, or ValueError
float(s) ==
  IF AllDigits(s)
    THEN [exc |-> "none", val |-> Num(DigitsVal(s, 0), 1)]
  ELSE IF s # <<>> /\ Head(s) = "-" /\ AllDigits(Tail(s))
    THEN [exc |-> "none", val |-> Num(-DigitsVal(Tail(s), 0), 1)]
  ELSE IF s # <<>> /\ Head(s) = "+" /\ AllDigits(Tail(s))
    THEN [exc |-> "none", val |-> Num(DigitsVal(Tail(s), 0), 1)]
  ELSE [exc |-> "ValueError", val |-> NaN]

\* What the modelled user may type at a prompt.
Entries ==
  { <<"1", "0">>, <<"7">>, <<"0">>, <<"-", "5">>, <<"a", "b", "c">>, <<>> }

\* The allocation loop over the rows from the k-th on: math.floor of
\* position_size / Price; a zero price raises ZeroDivisionError there.
RECURSIVE SharesFrom(_, _, _)
SharesFrom(df, k, position_size) ==
  IF k > Len(df) THEN [df |-> df, exc |-> "none"]
  ELSE LET price == df[k]["Price"]
       IN  IF price.n = 0 THEN [df |-> df, exc |-> "ZeroDivisionError"]
           ELSE SharesFrom(
                  [df EXCEPT ![k]["Number of Shares to Buy"] =
                     Num(Floor(Quot(position_size, price)), 1)],
                  k + 1, position_size)

----------------------------------------------------------------------------
Init ==
  /\ \E n \in 0..MaxUniverse : stocks = SubSeq(TickerNames, 1, n)
  /\ symbol_strings = SymbolStrings(stocks)
  /\ group = 1
  /\ data = <<>>
  /\ rv_dataframe = <<>>
  /\ portfolio_size = <<>>
  /\ pc = "build"
  /\ exception = "none"

\* One iteration of "for symbol_string in symbol_strings": the batch request
\* and the rows of its symbols.
FetchChunk ==
  /\ pc = "build" /\ exception = "none"
  /\ group <= Len(symbol_strings)
  /\ LET symbols == split(symbol_strings[group])
     IN  \E resp \in [Range(symbols) -> Responses] :
           LET r == AppendRows(rv_dataframe, symbols, resp)
           IN  /\ data' = resp
               /\ rv_dataframe' = r.df
               /\ exception' = r.exc
               /\ group' = IF r.exc = "none" THEN group + 1 ELSE group
  /\ UNCHANGED <<stocks, symbol_strings, portfolio_size, pc>>

\* The loop has run out of request strings: the build cell ends.
EndBuild ==
  /\ pc = "build" /\ exception = "none"
  /\ group > Len(symbol_strings)
  /\ pc' = "fillna"
  /\ UNCHANGED <<stocks, symbol_strings, group, data, rv_dataframe,
                 portfolio_size, exception>>

\* The cell "for column in [...]: ...fillna(...mean(), inplace = True)".
FillMissing ==
  /\ pc = "fillna" /\ exception = "none"
  /\ rv_dataframe' = FillFrom(rv_dataframe, 1)
  /\ pc' = "percentile"
  /\ UNCHANGED <<stocks, symbol_strings, group, data, portfolio_size,
                 exception>>

\* The cell of the percentileofscore loop.
ComputePercentiles ==
  /\ pc = "percentile" /\ exception = "none"
  /\ rv_dataframe' = Percentiles(rv_dataframe)
  /\ pc' = "score"
  /\ UNCHANGED <<stocks, symbol_strings, group, data, portfolio_size,
                 exception>>

\* The cell of the RV Score loop.
ComputeScores ==
  /\ pc = "score" /\ exception = "none"
  /\ rv_dataframe' = Scores(rv_dataframe)
  /\ pc' = "select"
  /\ UNCHANGED <<stocks, symbol_strings, group, data, portfolio_size,
                 exception>>

\* The cell sort_values / [:50] / reset_index.
Select ==
  /\ pc = "select" /\ exception = "none"
  /\ \E sorted \in SortOutcomes(rv_dataframe, "RV Score") :
       rv_dataframe' = Slice(sorted, 0, TopN)
  /\ pc' = "input"
  /\ UNCHANGED <<stocks, symbol_strings, group, data, portfolio_size,
                 exception>>

\* portfolio_input(): the first input(); a numeric entry returns, any other
\* prints "That's not a number!" and asks once more.
Prompt ==
  /\ pc = "input" /\ exception = "none"
  /\ \E entry \in Entries :
       /\ portfolio_size' = entry
       /\ pc' = IF float(entry).exc = "none" THEN "allocate" ELSE "again"
  /\ UNCHANGED <<stocks, symbol_strings, group, data, rv_dataframe,
                 exception>>

\* portfolio_input(): the input() of the except branch; whatever is typed is
\* stored and the function returns.
PromptAgain ==
  /\ pc = "again" /\ exception = "none"
  /\ \E entry \in Entries : portfolio_size' = entry
  /\ pc' = "allocate"
  /\ UNCHANGED <<stocks, symbol_strings, group, data, rv_dataframe,
                 exception>>

\* The cell position_size = float(portfolio_size) / len(index) and its loop.
Allocate ==
  /\ pc = "allocate" /\ exception = "none"
  /\ LET budget == float(portfolio_size)
     IN  IF budget.exc # "none"
           THEN /\ exception' = budget.exc
                /\ UNCHANGED <<rv_dataframe, pc>>
         ELSE IF Len(rv_dataframe) = 0
           THEN /\ exception' = "ZeroDivisionError"
                /\ UNCHANGED <<rv_dataframe, pc>>
         ELSE LET position_size ==
                    Quot(budget.val, Num(Len(rv_dataframe), 1))
                  r == SharesFrom(rv_dataframe, 1, position_size)
              IN  /\ rv_dataframe' = r.df
                  /\ exception' = r.exc
                  /\ pc' = IF r.exc = "none" THEN "done" ELSE pc
  /\ UNCHANGED <<stocks, symbol_strings, group, data, portfolio_size>>

Next ==
  \/ FetchChunk
  \/ EndBuild
  \/ FillMissing
  \/ ComputePercentiles
  \/ ComputeScores
  \/ Select
  \/ Prompt
  \/ PromptAgain
  \/ Allocate

Spec == Init /\ [][Next]_vars

----------------------------------------------------------------------------
(* Vocabulary of the properties. *)

\* the table holds every row of the universe with its percentiles computed
Ranked == pc \in {"score", "select"} /\ exception = "none"

MetricOf(m) == metrics[m][1]
PercentileOf(m) == metrics[m][2]

NoNull(df, column) == \A i \in DOMAIN df : IsNum(df[i][column])

CountLt(df, column, r) ==
  Cardinality({s \in DOMAIN df : Lt(df[s][column], df[r][column])})

CountLe(df, column, r) ==
  Cardinality({s \in DOMAIN df : Le(df[s][column], df[r][column])})

RowOf(df, symbol) == CHOOSE i \in DOMAIN df : df[i]["Ticker"] = symbol

----------------------------------------------------------------------------
(* C1: the original statement.  For every metric column without undefined  *)
(* cells and every row r, the stored percentile equals the number of rows  *)
(* whose value is <= value(r), divided by the universe size; tied rows get *)
(* that count-of-<= value.                                                 *)
C1_CountOfLessOrEqual ==
  Ranked =>
    \A m \in DOMAIN metrics :
      NoNull(rv_dataframe, MetricOf(m)) =>
        \A r \in DOMAIN rv_dataframe :
          rv_dataframe[r][PercentileOf(m)] =
            Num(CountLe(rv_dataframe, MetricOf(m), r), Len(rv_dataframe))

(* C1, amended: the stored percentile is the averaged rank                 *)
(*   (|{s : value(s) < value(r)}| + |{s : value(s) <= value(r)}| + 1)      *)
(*   / (2 * |universe|),                                                   *)
(* which is the count-of-<= fraction exactly when no other row ties with r;*)
(* in a column that still holds undefined cells the percentile is NaN.     *)
C1_AveragedRank ==
  Ranked =>
    \A m \in DOMAIN metrics :
      \A r \in DOMAIN rv_dataframe :
        LET df == rv_dataframe
            lt == CountLt(df, MetricOf(m), r)
            le == CountLe(df, MetricOf(m), r)
            p == df[r][PercentileOf(m)]
        IN  IF NoNull(df, MetricOf(m))
            THEN /\ p = Num(lt + le + 1, 2 * Len(df))
                 /\ (le = lt + 1 => p = Num(le, Len(df)))
                 /\ \A s \in DOMAIN df :
                      df[s][MetricOf(m)] = df[r][MetricOf(m)] =>
                        df[s][PercentileOf(m)] = p
            ELSE isnull(p)

\* C1 witness: two rows tie in a fully defined metric column and their
\* percentile is not the count-of-<= fraction.
C1_TieRanked ==
  /\ Ranked
  /\ \E m \in DOMAIN metrics : \E r, s \in DOMAIN rv_dataframe :
       /\ r # s
       /\ NoNull(rv_dataframe, MetricOf(m))
       /\ rv_dataframe[r][MetricOf(m)] = rv_dataframe[s][MetricOf(m)]
       /\ rv_dataframe[r][PercentileOf(m)] #
            Num(CountLe(rv_dataframe, MetricOf(m), r), Len(rv_dataframe))

(* C2: for a non-empty universe and each metric, after the percentile      *)
(* stage every percentile is a number in (0, 1], a row holding the column  *)
(* minimum has the minimum percentile, equal values have equal percentiles *)
(* and a larger value never has a smaller percentile.                      *)
C2_PercentileRangeAndOrder ==
  (Ranked /\ rv_dataframe # <<>>) =>
    \A m \in DOMAIN metrics :
      \A r \in DOMAIN rv_dataframe :
        LET df == rv_dataframe
            p == df[r][PercentileOf(m)]
        IN  /\ IsNum(p) /\ 0 < p.n /\ p.n <= p.d
            /\ \A s \in DOMAIN df :
                 LET q == df[s][PercentileOf(m)]
                 IN  /\ (\A t \in DOMAIN df :
                           Le(df[r][MetricOf(m)], df[t][MetricOf(m)]))
                          => Le(p, q)
                     /\ df[r][MetricOf(m)] = df[s][MetricOf(m)] => p = q
                     /\ Lt(df[r][MetricOf(m)], df[s][MetricOf(m)])
                          => Le(p, q)

(* C3: while the table is built no exception is raised; every symbol of    *)
(* the last request has its row; and a row whose enterprise value or       *)
(* denominator is undefined, non-numeric or zero holds the undefined       *)
(* marker in EV/EBITDA (likewise EV/GP), never a number.                   *)
C3_UndefinedRatioNeverRaises ==
  pc = "build" =>
    /\ exception = "none"
    /\ \A symbol \in DOMAIN data :
         /\ \E i \in DOMAIN rv_dataframe : rv_dataframe[i]["Ticker"] = symbol
         /\ LET row == rv_dataframe[RowOf(rv_dataframe, symbol)]
                adv == data[symbol]
                Bad(den) == \/ adv.enterpriseValue.t # "num"
                            \/ den.t # "num"
                            \/ den.v = 0
            IN  /\ Bad(adv.EBITDA) => isnull(row["EV/EBITDA"])
                /\ Bad(adv.grossProfit) => isnull(row["EV/GP"])

(* C4: the imputation pass.  For each metric column with at least one      *)
(* defined cell before the pass: every cell that was undefined holds the   *)
(* arithmetic mean of the cells that were defined, every defined cell is   *)
(* unchanged, and no undefined cell remains.                               *)
C4_MeanImputation ==
  [][ (pc = "fillna" /\ pc' = "percentile") =>
        /\ Len(rv_dataframe') = Len(rv_dataframe)
        /\ \A m \in DOMAIN metrics :
             LET old == Column(rv_dataframe, MetricOf(m))
                 new == Column(rv_dataframe', MetricOf(m))
                 defined == SelectSeq(old, IsNum)
                 total == SumSeq(defined)
             IN  defined # <<>> =>
                   \A i \in DOMAIN old :
                     /\ IsNum(new[i])
                     /\ IsNum(old[i]) => new[i] = old[i]
                     /\ isnull(old[i]) =>
                          new[i].n * total.d * Len(defined) = total.n * new[i].d
    ]_vars

\* C4 witness: imputation is over, and a symbol of the last request whose
\* payload had no P/E holds a P/E that is not a whole number: the mean of
\* the other rows.
C4_CellImputed ==
  /\ pc = "percentile"
  /\ \E symbol \in DOMAIN data :
       /\ data[symbol].peRatio.t = "null"
       /\ LET cell == rv_dataframe[RowOf(rv_dataframe, symbol)]
                        ["Price-to-Earnings Ratio"]
          IN  IsNum(cell) /\ cell.d > 1

(* C5: undefined metric values never flow past imputation: once the        *)
(* imputation cell has run, no metric cell is undefined (a column with no  *)
(* defined value stops the run at imputation instead).                     *)
C5_NoUndefinedPastImputation ==
  pc \notin {"build", "fillna"} =>
    \A m \in DOMAIN metrics : NoNull(rv_dataframe, MetricOf(m))

(* C6: once scored, every row's RV Score is a number in [0, 1] and equals  *)
(* one fifth of the sum of that row's five percentile cells.               *)
C6_ScoreIsMeanOfFive ==
  (pc = "select" /\ exception = "none") =>
    \A r \in DOMAIN rv_dataframe :
      LET row == rv_dataframe[r]
          rv == row["RV Score"]
      IN  /\ IsNum(rv) /\ 0 <= rv.n /\ rv.n <= rv.d
          /\ \A m \in DOMAIN metrics : IsNum(row[PercentileOf(m)])
          /\ LET total == SumSeq([m \in DOMAIN metrics |->
                                    row[PercentileOf(m)]])
             IN  rv.n * 5 * total.d = total.n * rv.d

----------------------------------------------------------------------------
\* the position row i takes in a stable ascending sort by the given column
StableRank(df, by, i) ==
  1 + Cardinality({j \in DOMAIN df :
                     \/ Lt(df[j][by], df[i][by])
                     \/ (df[j][by] = df[i][by] /\ j < i)})

StableSort(df, by) ==
  [k \in DOMAIN df |-> df[CHOOSE i \in DOMAIN df : StableRank(df, by, i) = k]]

Min(a, b) == IF a < b THEN a ELSE b

(* C7: the original statement, on universes whose scores are all numbers:  *)
(* the selected table is exactly the first min(N, size) rows of the        *)
(* universe sorted ascending by RV Score with equal scores kept in input   *)
(* order.                                                                  *)
C7_StableSortedPrefix ==
  [][ (pc = "select" /\ pc' = "input"
       /\ NoNull(rv_dataframe, "RV Score")) =>
        rv_dataframe' = Slice(StableSort(rv_dataframe, "RV Score"), 0, TopN)
    ]_vars

(* C7, amended: the selected table holds exactly min(N, size) distinct     *)
(* rows of the universe in ascending RV Score order, and no row left out   *)
(* has a strictly smaller score than a selected one (it is a prefix of an  *)
(* ascending sort); the order among equal scores is not fixed.             *)
C7_AscendingPrefix ==
  [][ (pc = "select" /\ pc' = "input") =>
        LET old == rv_dataframe
            new == rv_dataframe'
        IN  /\ Len(new) = Min(TopN, Len(old))
            /\ \A i \in DOMAIN new : \E j \in DOMAIN old : new[i] = old[j]
            /\ \A i, j \in DOMAIN new :
                 i < j => /\ new[i]["Ticker"] # new[j]["Ticker"]
                          /\ ~Lt(new[j]["RV Score"], new[i]["RV Score"])
            /\ \A j \in DOMAIN old :
                 (\A i \in DOMAIN new : new[i] # old[j]) =>
                   \A i \in DOMAIN new :
                     ~Lt(old[j]["RV Score"], new[i]["RV Score"])
    ]_vars

InputIndex(symbol) == CHOOSE i \in DOMAIN stocks : stocks[i] = symbol

\* C7 witness: the selection has cut a larger universe down to N rows, and
\* two selected rows of equal score stand against their input order.
C7_TruncatedWithTieReordered ==
  /\ pc = "input"
  /\ Len(stocks) > TopN
  /\ Len(rv_dataframe) = TopN
  /\ \E i, j \in DOMAIN rv_dataframe :
       /\ i < j
       /\ IsNum(rv_dataframe[i]["RV Score"])
       /\ rv_dataframe[i]["RV Score"] = rv_dataframe[j]["RV Score"]
       /\ InputIndex(rv_dataframe[i]["Ticker"]) >
            InputIndex(rv_dataframe[j]["Ticker"])

----------------------------------------------------------------------------
Budget == float(portfolio_size)

PositivePrices == \A r \in DOMAIN rv_dataframe : rv_dataframe[r]["Price"].n > 0

\* shares * price summed over the rows from the k-th on (whole numbers)
RECURSIVE SpentFrom(_, _)
SpentFrom(df, k) ==
  IF k > Len(df) THEN 0
  ELSE df[k]["Number of Shares to Buy"].n * df[k]["Price"].n
         + SpentFrom(df, k + 1)

(* C8: for a positive budget B and n >= 1 selected rows with positive      *)
(* prices, every share count is the whole number k with                    *)
(* k <= (B / n) / price < k + 1, and the shares cost at most B in total.   *)
C8_FloorAllocation ==
  (pc = "done" /\ Budget.exc = "none" /\ Budget.val.n > 0 /\ PositivePrices) =>
    LET df == rv_dataframe
        B == Budget.val
        n == Len(df)
    IN  /\ n >= 1
        /\ \A r \in DOMAIN df :
             LET k == df[r]["Number of Shares to Buy"]
                 price == df[r]["Price"]
             IN  /\ IsNum(k) /\ k.d = 1 /\ price.d = 1
                 /\ k.n * n * price.n * B.d <= B.n
                 /\ B.n < (k.n + 1) * n * price.n * B.d
        /\ SpentFrom(df, 1) * B.d <= B.n

\* C8 witness: two positively priced rows were allocated from a positive
\* budget, shares were bought, and part of the budget is left over.
C8_AllocatedWithRemainder ==
  /\ pc = "done" /\ Budget.exc = "none" /\ Budget.val.n > 0 /\ PositivePrices
  /\ Len(rv_dataframe) = 2
  /\ \E r \in DOMAIN rv_dataframe :
       rv_dataframe[r]["Number of Shares to Buy"].n > 0
  /\ SpentFrom(rv_dataframe, 1) * Budget.val.d < Budget.val.n

(* C9: a share count is written only under a numeric, positive budget: in  *)
(* no state does a row hold a share count while portfolio_size is          *)
(* non-numeric, zero or negative.                                          *)
C9_NoSharesOnInvalidBudget ==
  (\E r \in DOMAIN rv_dataframe :
     rv_dataframe[r]["Number of Shares to Buy"] # NA)
    => (Budget.exc = "none" /\ Budget.val.n > 0)

(* C10: whenever portfolio_input has returned, portfolio_size converts to  *)
(* a number, so the float(portfolio_size) of the allocation cell does not  *)
(* raise ValueError, whatever the sequence of entries.                     *)
C10_ReturnedSizeIsNumeric ==
  pc \in {"allocate", "done"} =>
    (Budget.exc = "none" /\ exception # "ValueError")

----------------------------------------------------------------------------
(* C11: under a positive budget, every share count that is written is a    *)
(* whole number >= 0, and a selected row priced at zero does not end the   *)
(* allocation cell in a division error.                                    *)
C11_SharesNonNegativeNoDivisionError ==
  (Budget.exc = "none" /\ Budget.val.n > 0) =>
    /\ \A r \in DOMAIN rv_dataframe :
         LET k == rv_dataframe[r]["Number of Shares to Buy"]
         IN  k # NA => (IsNum(k) /\ k.d = 1 /\ k.n >= 0)
    /\ ~(pc = "allocate" /\ rv_dataframe # <<>>
         /\ exception = "ZeroDivisionError")

----------------------------------------------------------------------------
\* the concatenation of the token lists of the request strings from k on
RECURSIVE TickersFrom(_, _)
TickersFrom(strings, k) ==
  IF k > Len(strings) THEN <<>>
  ELSE split(strings[k]) \o TickersFrom(strings, k + 1)

\* the number of "," separators of a request string
Commas(string) == Cardinality({i \in DOMAIN string : string[i] = ","})

(* C12: the request strings are consecutive chunks of the ticker list:     *)
(* each holds between 1 and B tickers, only the last may hold fewer than   *)
(* B, their tickers in order are exactly the ticker list, each string is   *)
(* its chunk's tickers joined by single commas, and the build loop issues  *)
(* one request per string.                                                 *)
C12_ConsecutiveChunks ==
  /\ \A k \in DOMAIN symbol_strings :
       LET string == symbol_strings[k]
           chunk == split(string)
       IN  /\ 1 <= Len(chunk) /\ Len(chunk) <= ChunkSize
           /\ k < Len(symbol_strings) => Len(chunk) = ChunkSize
           /\ chunk = SubSeq(stocks, (k - 1) * ChunkSize + 1,
                             (k - 1) * ChunkSize + Len(chunk))
           /\ Len(string) = 2 * Len(chunk) - 1
           /\ Commas(string) = Len(chunk) - 1
           /\ \A i \in DOMAIN string : (string[i] = ",") <=> (i % 2 = 0)
  /\ TickersFrom(symbol_strings, 1) = stocks
  /\ Len(symbol_strings) * ChunkSize >= Len(stocks)
  /\ Len(stocks) > (Len(symbol_strings) - 1) * ChunkSize
       \/ (stocks = <<>> /\ symbol_strings = <<>>)
  /\ group \in 1..(Len(symbol_strings) + 1)
  /\ pc # "build" => group = Len(symbol_strings) + 1
  /\ (pc = "build" /\ exception = "none") =>
       [i \in DOMAIN rv_dataframe |-> rv_dataframe[i]["Ticker"]]
         = SubSeq(stocks, 1, Min((group - 1) * ChunkSize, Len(stocks)))

\* C12 witness: a universe that does not divide evenly has been fetched in
\* a full chunk and a shorter last chunk, one request each.
C12_FullChunkThenShortChunk ==
  /\ pc = "fillna"
  /\ Len(symbol_strings) >= 2
  /\ Len(split(symbol_strings[1])) = ChunkSize
  /\ Len(split(symbol_strings[Len(symbol_strings)])) < ChunkSize
  /\ group = Len(symbol_strings) + 1
  /\ Len(rv_dataframe) = Len(stocks)

----------------------------------------------------------------------------
PE == "Price-to-Earnings Ratio"

\* a universe of three rows whose P/E cells are, in row order, a, b, c
PEColumnIs(df, a, b, c) == Column(df, PE) = <<a, b, c>>

\* the other four metrics rank a row as its P/E does: the composite score
\* rests on one ranking only
SingleRanking(row) ==
  \A m \in DOMAIN metrics : row[PercentileOf(m)] = row["PE Percentile"]

(* C13: the original statement.  In the three-row universe with P/E 10,    *)
(* 20, undefined (imputed to 15), the PE percentiles are, in row order,    *)
(* 1/3, 2/3 and 1.                                                         *)
C13_PercentilesInRowOrder ==
  (Ranked /\ PEColumnIs(rv_dataframe, Num(10, 1), Num(20, 1), Num(15, 1))) =>
    Column(rv_dataframe, "PE Percentile") = <<Num(1, 3), Num(2, 3), Num(1, 1)>>

(* C13, amended: in the three-row universe with P/E 10, 20, undefined the  *)
(* imputation cell sets the undefined cell to 15; the PE percentiles are   *)
(* then, in row order, 1/3, 1 and 2/3 (the imputed row ranks between the   *)
(* other two); and a row whose other four percentiles equal its PE         *)
(* percentile has that percentile as its RV Score.                         *)
C13_Scenario ==
  [][ /\ (pc = "fillna" /\ pc' = "percentile"
          /\ PEColumnIs(rv_dataframe, Num(10, 1), Num(20, 1), NaN)) =>
            PEColumnIs(rv_dataframe', Num(10, 1), Num(20, 1), Num(15, 1))
      /\ (pc = "percentile" /\ pc' = "score"
          /\ PEColumnIs(rv_dataframe, Num(10, 1), Num(20, 1), Num(15, 1))) =>
            Column(rv_dataframe', "PE Percentile")
              = <<Num(1, 3), Num(1, 1), Num(2, 3)>>
      /\ (pc = "score" /\ pc' = "select"
          /\ PEColumnIs(rv_dataframe, Num(10, 1), Num(20, 1), Num(15, 1))) =>
            \A r \in DOMAIN rv_dataframe' :
              SingleRanking(rv_dataframe'[r]) =>
                rv_dataframe'[r]["RV Score"] = rv_dataframe'[r]["PE Percentile"]
    ]_vars

\* C13 witness: the scenario has been imputed, ranked and scored, and every
\* row's RV Score is its PE percentile.
C13_ScenarioScored ==
  /\ pc = "select"
  /\ PEColumnIs(rv_dataframe, Num(10, 1), Num(20, 1), Num(15, 1))
  /\ Column(rv_dataframe, "PE Percentile") = <<Num(1, 3), Num(1, 1), Num(2, 3)>>
  /\ \A r \in DOMAIN rv_dataframe :
       /\ SingleRanking(rv_dataframe[r])
       /\ rv_dataframe[r]["RV Score"] = rv_dataframe[r]["PE Percentile"]

----------------------------------------------------------------------------
ComputedCols == {metrics[m][2] : m \in DOMAIN metrics} \cup {"RV Score"}

Tickers(df) == [i \in DOMAIN df |-> df[i]["Ticker"]]

\* every chunk has been fetched: the table holds one row per ticker, in
\* input order
FullUniverse(df) ==
  group = Len(symbol_strings) + 1 /\ Tickers(df) = stocks

\* the imputation pass has run: a metric column holds no undefined cell,
\* or nothing but undefined cells (no value to impute from)
ImputationDone(df) ==
  \A m \in DOMAIN metrics :
    NoNull(df, MetricOf(m)) \/ \A i \in DOMAIN df : isnull(df[i][MetricOf(m)])

\* where each field may hold something other than its placeholder
PlaceholdersKept ==
  \A r \in DOMAIN rv_dataframe :
    LET row == rv_dataframe[r]
    IN  /\ pc \in {"build", "fillna", "percentile"} =>
             \A c \in ComputedCols : row[c] = NA
        /\ pc = "score" => row["RV Score"] = NA
        /\ (pc # "done" /\ ~(pc = "allocate" /\ exception # "none")) =>
             row["Number of Shares to Buy"] = NA

(* C14: percentile and RV Score cells keep their placeholder until every   *)
(* chunk is fetched and the imputation cell has run; the percentiles are   *)
(* written for every row of the whole, imputed universe and equal the      *)
(* ranks within it; the scores are written over the whole universe; the    *)
(* table is cut to the top N only after that; share counts are written     *)
(* last, and only in the allocation cell.                                  *)
C14_StageOrder ==
  [][ LET old == rv_dataframe
          new == rv_dataframe'
      IN  /\ PlaceholdersKept /\ PlaceholdersKept'
          /\ (\E r \in DOMAIN old : \E q \in DOMAIN new :
                /\ old[r]["Ticker"] = new[q]["Ticker"]
                /\ \E m \in DOMAIN metrics :
                     old[r][PercentileOf(m)] # new[q][PercentileOf(m)]) =>
               /\ pc = "percentile" /\ pc' = "score"
               /\ FullUniverse(old) /\ ImputationDone(old)
               /\ Tickers(new) = stocks
               /\ \A r \in DOMAIN new : \A m \in DOMAIN metrics :
                    /\ new[r][MetricOf(m)] = old[r][MetricOf(m)]
                    /\ new[r][PercentileOf(m)] # NA
                    /\ NoNull(old, MetricOf(m)) =>
                         new[r][PercentileOf(m)] =
                           Num(CountLt(old, MetricOf(m), r)
                                 + CountLe(old, MetricOf(m), r) + 1,
                               2 * Len(stocks))
          /\ (pc = "percentile" /\ pc' # pc) => Tickers(new) = stocks
          /\ (pc = "score" /\ pc' # pc) =>
               /\ Tickers(new) = stocks
               /\ \A r \in DOMAIN new : new[r]["RV Score"] # NA
          /\ Tickers(new) # Tickers(old) =>
               \/ pc = "build" /\ pc' = "build"
               \/ /\ pc = "select" /\ pc' = "input"
                  /\ Tickers(old) = stocks
                  /\ \A r \in DOMAIN old : \A c \in ComputedCols :
                       old[r][c] # NA
          /\ (\E r \in DOMAIN old : \E q \in DOMAIN new :
                /\ old[r]["Ticker"] = new[q]["Ticker"]
                /\ old[r]["Number of Shares to Buy"]
                     # new[q]["Number of Shares to Buy"]) =>
               /\ pc = "allocate"
               /\ Len(old) <= TopN
               /\ \A r \in DOMAIN old : \A c \in ComputedCols : old[r][c] # NA
    ]_vars

\* C14 witness: a universe larger than N has gone through every stage:
\* fetched in several requests, ranked, scored, cut to N rows and allocated.
C14_AllStagesRun ==
  /\ pc = "done"
  /\ Len(symbol_strings) >= 2
  /\ Len(stocks) > TopN
  /\ Len(rv_dataframe) = TopN
  /\ \A r \in DOMAIN rv_dataframe :
       /\ \A c \in ComputedCols : IsNum(rv_dataframe[r][c])
       /\ IsNum(rv_dataframe[r]["Number of Shares to Buy"])

============================================================================
